---- MODULE Spec2Model ----
(***************************************************************************)
(* Collector add-on (src/collector.py): cameras go to the 'Cameras'        *)
(* collection, lights to the 'Lights' collection, both renamed             *)
(* sequentially, driven by the host's load_post and depsgraph_update_post  *)
(* hooks, a per-scene toggle and two operators.                            *)
(*                                                                         *)
(* Object names are sequences of character codes, so that sorting,         *)
(* lower-casing, the "^{TypeName} (\d+)$" pattern, int() and the f-string  *)
(* formatting are computed as the code computes them.                      *)
(***************************************************************************)
EXTENDS Integers, Sequences, FiniteSets, TLC

\* ------------------------------------------------------------------ bounds
\* Objects alive in bpy.data.objects at one time.
MaxObj == 1
\* Timers registered by register() and not yet fired.
MaxTimers == 1

\* ------------------------------------------------------------- host model
Scenes == {"A", "B"}

\* Collections: the two target collections of bpy.data.collections, and the
\* master collection of each scene (scene.collection), named by its scene.
CAMERAS_COLLECTION_NAME == "Cameras"
LIGHTS_COLLECTION_NAME == "Lights"
TARGET_OBJECT_TYPES == {"CAMERA", "LIGHT"}
TargetColls == {CAMERAS_COLLECTION_NAME, LIGHTS_COLLECTION_NAME}
AllColls == TargetColls \cup Scenes

ObjIds == 1..MaxObj

\* "Camera", "Light", "Cube" and "b" as character codes.
CameraStr == <<67, 97, 109, 101, 114, 97>>
LightStr == <<76, 105, 103, 104, 116>>
CubeStr == <<67, 117, 98, 101>>
LowerB == <<98>>
Space == <<32>>
Dot == <<46>>

IsDigit(c) == c >= 48 /\ c <= 57

\* str.lower() on one character (ASCII).
LowerChar(c) == IF c >= 65 /\ c <= 90 THEN c + 32 ELSE c

\* o.name.lower()
Lower(s) == [i \in 1..Len(s) |-> LowerChar(s[i])]

\* Python's str "<": first differing code point, a proper prefix is smaller.
StrLess(a, b) ==
    \E i \in 1..(Len(a) + 1) :
        /\ i <= Len(b)
        /\ \A j \in 1..(i - 1) : a[j] = b[j]
        /\ (i = Len(a) + 1 \/ a[i] < b[i])

\* str(n) for n >= 0, as the f-string formats the index.
RECURSIVE IntToStr(_)
IntToStr(n) == IF n < 10 THEN <<48 + n>> ELSE IntToStr(n \div 10) \o <<48 + (n % 10)>>

\* int(digits) for a non-empty run of decimal digits (leading zeros allowed).
RECURSIVE StrToInt(_)
StrToInt(s) ==
    IF Len(s) = 0 THEN 0
    ELSE 10 * StrToInt(SubSeq(s, 1, Len(s) - 1)) + (s[Len(s)] - 48)

\* type_name of lines 74 and 106; <<>> stands for None.
TypeName(t) == IF t = "CAMERA" THEN CameraStr ELSE IF t = "LIGHT" THEN LightStr ELSE <<>>

\* f"{type_name} {i}"
SeqName(tn, i) == tn \o Space \o IntToStr(i)

\* re.compile(rf"^{type_name} (\d+)$").match(name)
PatternMatch(tn, nm) ==
    /\ Len(nm) >= Len(tn) + 2
    /\ SubSeq(nm, 1, Len(tn)) = tn
    /\ nm[Len(tn) + 1] = 32
    /\ \A i \in (Len(tn) + 2)..Len(nm) : IsDigit(nm[i])

\* match.group(1)
PatternGroup(tn, nm) == SubSeq(nm, Len(tn) + 2, Len(nm))

\* The host's three-digit suffix ".001", ".002", ...
Suffix(k) ==
    Dot \o (IF k < 10 THEN <<48, 48>> ELSE IF k < 100 THEN <<48>> ELSE <<>>) \o IntToStr(k)

\* The host keeps names unique: a name assigned while another object holds it
\* is given the first free numeric suffix.
UniqueName(nm, taken) ==
    IF nm \notin taken THEN nm
    ELSE LET k == CHOOSE k \in 1..(Cardinality(taken) + 1) :
                      /\ (nm \o Suffix(k)) \notin taken
                      /\ \A j \in 1..(k - 1) : (nm \o Suffix(j)) \in taken
         IN  nm \o Suffix(k)

\* obj.name = nm
AssignName(objs, o, nm) ==
    LET taken == {objs[p].name : p \in (DOMAIN objs) \ {o}}
    IN  [objs EXCEPT ![o].name = UniqueName(nm, taken)]

\* All orders of a finite set, as sequences.
SeqPerms(S) ==
    {s \in [1..Cardinality(S) -> S] : \A i, j \in 1..Cardinality(S) : s[i] = s[j] => i = j}

\* scene.objects: the objects linked to the scene's master collection or to a
\* child collection of it.  d is the host data [objects, colls, children].
SceneObjects(d, scene) ==
    {o \in DOMAIN d.objects :
        d.objects[o].links \cap ({scene} \cup d.children[scene]) # {}}

\* ------------------------------------------------------------ the add-on

\* Variant of is_auto_enabled that does not read the scene's toggle.
is_auto_enabled_ignoring_toggle(defined, tog, scene) == defined

\* is_auto_enabled: getattr(scene, "collector_enable_auto", False); the
\* attribute exists while the property is defined on bpy.types.Scene.
is_auto_enabled(defined, tog, scene) == defined /\ tog[scene]

\* find_or_create_collection
find_or_create_collection(d, cname, scene) ==
    [d EXCEPT !.colls = @ \cup {cname},
              !.children = [@ EXCEPT ![scene] = @ \cup {cname}]]

\* Variant of move_object_exclusively_to_collection without the two
\* try/except blocks: the first failing host call ends the function.
move_object_exclusively_to_collection_uncaught(users, target, linkFails, unlinkFails) ==
    IF target \notin users /\ target \in linkFails
    THEN [links |-> users, exc |-> "RuntimeError"]
    ELSE LET linked == users \cup {target}
         IN  IF (linked \ {target}) \cap unlinkFails # {}
             THEN [links |-> linked, exc |-> "RuntimeError"]
             ELSE [links |-> {target}, exc |-> "none"]

\* move_object_exclusively_to_collection on the object's users_collection.
\* linkFails / unlinkFails: the collections whose objects.link / objects.unlink
\* call raises RuntimeError.  Returns the links on return and the exception
\* that leaves the function ("none": every RuntimeError is caught).
move_object_exclusively_to_collection(users, target, linkFails, unlinkFails) ==
    LET linked == IF target \notin users
                  THEN IF target \in linkFails THEN users ELSE users \cup {target}
                  ELSE users
        unlinked == {col \in linked : col # target /\ col \notin unlinkFails}
    IN  [links |-> linked \ unlinked, exc |-> "none"]

\* objs.sort(key=lambda o: o.name.lower()) on the objects S: every order that
\* is non-decreasing in the key (objects with equal keys in either order).
RECURSIVE SortedSeqs(_, _)
SortedSeqs(objs, S) ==
    IF S = {} THEN {<<>>}
    ELSE UNION {{<<m>> \o rest : rest \in SortedSeqs(objs, S \ {m})} :
                    m \in {x \in S : \A y \in S :
                               ~StrLess(Lower(objs[y].name), Lower(objs[x].name))}}

\* objs = [o for o in bpy.data.objects if o.type == obj_type]; objs.sort(...)
SortedOrders(objs, t) == SortedSeqs(objs, {o \in DOMAIN objs : objs[o].type = t})

\* for i, obj in enumerate(objs, start=1): obj.name = f"{type_name} {i}"
RECURSIVE RenameLoop(_, _, _, _)
RenameLoop(objs, order, i, tn) ==
    IF i > Len(order) THEN objs
    ELSE RenameLoop(AssignName(objs, order[i], SeqName(tn, i)), order, i + 1, tn)

\* rename_objects_sequentially_of_type: the possible results.
rename_objects_sequentially_of_type(objs, t) ==
    IF TypeName(t) = <<>> THEN {objs}
    ELSE {RenameLoop(objs, order, 1, TypeName(t)) : order \in SortedOrders(objs, t)}

\* The collection an object of a tracked type is moved to.
TargetOf(t) == IF t = "CAMERA" THEN CAMERAS_COLLECTION_NAME ELSE LIGHTS_COLLECTION_NAME

\* Variant of MoveAll without the branch for lights.
MoveAll_camerasOnly(objs, S) ==
    [o \in DOMAIN objs |->
        IF o \in S /\ objs[o].type = "CAMERA"
        THEN [objs[o] EXCEPT !.links =
                 move_object_exclusively_to_collection(@, CAMERAS_COLLECTION_NAME, {}, {}).links]
        ELSE objs[o]]

\* for obj in scene.objects: move cameras and lights (lines 93-97 and 141-144).
MoveAll(objs, S) ==
    [o \in DOMAIN objs |->
        IF o \in S /\ objs[o].type \in TARGET_OBJECT_TYPES
        THEN [objs[o] EXCEPT !.links =
                 move_object_exclusively_to_collection(@, TargetOf(objs[o].type), {}, {}).links]
        ELSE objs[o]]

\* organize_scene_objects: the possible results.
organize_scene_objects(d, scene) ==
    LET d2 == find_or_create_collection(
                  find_or_create_collection(d, CAMERAS_COLLECTION_NAME, scene),
                  LIGHTS_COLLECTION_NAME, scene)
        renamed == UNION {rename_objects_sequentially_of_type(oc, "LIGHT") :
                            oc \in rename_objects_sequentially_of_type(d2.objects, "CAMERA")}
    IN  {[d2 EXCEPT !.objects = MoveAll(r, SceneObjects(d2, scene))] : r \in renamed}

\* rebuild_tracked_ids
rebuild_tracked_ids(d, scene) ==
    {o \in SceneObjects(d, scene) : d.objects[o].type \in TARGET_OBJECT_TYPES}

\* The set `numbers` of rename_object_sequentially (lines 111-120).
UsedNumbers(objs, o) ==
    LET tn == TypeName(objs[o].type)
    IN  {StrToInt(PatternGroup(tn, objs[p].name)) :
            p \in {q \in DOMAIN objs :
                      objs[q].type = objs[o].type /\ PatternMatch(tn, objs[q].name)}}

\* new_number = 1; while new_number in numbers: new_number += 1
LowestUnused(numbers) ==
    CHOOSE n \in 1..(Cardinality(numbers) + 1) :
        n \notin numbers /\ \A m \in 1..(n - 1) : m \in numbers

\* rename_object_sequentially
rename_object_sequentially(objs, o) ==
    IF TypeName(objs[o].type) = <<>> THEN objs
    ELSE AssignName(objs, o,
             SeqName(TypeName(objs[o].type), LowestUnused(UsedNumbers(objs, o))))

\* new_objects of organize_new_objects (lines 133-136).
NewObjects(d, scene, tracked) ==
    {o \in SceneObjects(d, scene) :
        d.objects[o].type \in TARGET_OBJECT_TYPES /\ o \notin tracked}

\* for obj in new_objects: rename, then move (lines 138-144).
RECURSIVE NewLoop(_, _, _)
NewLoop(objs, order, i) ==
    IF i > Len(order) THEN objs
    ELSE NewLoop(MoveAll(rename_object_sequentially(objs, order[i]), {order[i]}),
                 order, i + 1)

\* organize_new_objects without its trailing rebuild_tracked_ids: the possible
\* results, one per order in which the host lists the new objects.
organize_new_objects(d, scene, tracked) ==
    LET d2 == find_or_create_collection(
                  find_or_create_collection(d, CAMERAS_COLLECTION_NAME, scene),
                  LIGHTS_COLLECTION_NAME, scene)
    IN  {[d2 EXCEPT !.objects = NewLoop(d2.objects, order, 1)] :
            order \in SeqPerms(NewObjects(d2, scene, tracked))}

\* ensure_handlers_registered on h = [flag, load_post, depsgraph_update_post].
InList(f, list) == \E i \in 1..Len(list) : list[i] = f

\* Variant of ensure_handlers_registered that appends without looking at the
\* flag or at the lists.
ensure_handlers_registered_unchecked(h) ==
    [flag |-> TRUE,
     load_post |-> Append(h.load_post, "handle_load_post"),
     depsgraph_update_post |-> Append(h.depsgraph_update_post, "handle_depsgraph_update")]

ensure_handlers_registered(h) ==
    IF h.flag THEN h
    ELSE [flag |-> TRUE,
          load_post |->
              IF InList("handle_load_post", h.load_post) THEN h.load_post
              ELSE Append(h.load_post, "handle_load_post"),
          depsgraph_update_post |->
              IF InList("handle_depsgraph_update", h.depsgraph_update_post)
              THEN h.depsgraph_update_post
              ELSE Append(h.depsgraph_update_post, "handle_depsgraph_update")]

\* ensure_handlers_unregistered
ensure_handlers_unregistered(h) ==
    [flag |-> FALSE,
     load_post |-> SelectSeq(h.load_post, LAMBDA f : f # "handle_load_post"),
     depsgraph_update_post |->
         SelectSeq(h.depsgraph_update_post, LAMBDA f : f # "handle_depsgraph_update")]

\* Variant of export_report that swallows the write error.
export_report_always_finished(writeFails) ==
    [op |-> "export", status |-> "FINISHED", report |-> "INFO"]

\* The outcome of OBJECT_OT_collector_export_report.execute, given whether
\* open()/write() of the report file raises.
export_report(writeFails) ==
    IF writeFails
    THEN [op |-> "export", status |-> "CANCELLED", report |-> "ERROR"]
    ELSE [op |-> "export", status |-> "FINISHED", report |-> "INFO"]

\* ------------------------------------------------------------------ state
VARIABLES
    objects,                \* bpy.data.objects: id -> [type, name, links]
    colls,                  \* the target collections present in bpy.data.collections
    children,               \* scene -> the target collections under scene.collection
    cur,                    \* bpy.context.scene
    toggle,                 \* scene -> the stored value of collector_enable_auto
    propDefined,            \* bpy.types.Scene.collector_enable_auto is defined
    HANDLERS_REGISTERED,
    load_post,              \* bpy.app.handlers.load_post
    depsgraph_update_post,  \* bpy.app.handlers.depsgraph_update_post
    TRACKED_OBJECT_IDS,
    timers,                 \* delayed_init timers registered and not yet fired
    result,                 \* what the last operator call returned and reported
    pendingNew,             \* history: objects added to the current scene, with its
                            \* toggle on, and not yet followed by any other event
    existedAtOrg            \* history: objects that existed when the tracked cache
                            \* was last rebuilt and that the user has neither
                            \* deleted nor relinked since

vars == <<objects, colls, children, cur, toggle, propDefined, HANDLERS_REGISTERED,
          load_post, depsgraph_update_post, TRACKED_OBJECT_IDS, timers, result,
          pendingNew, existedAtOrg>>

D == [objects |-> objects, colls |-> colls, children |-> children]

H == [flag |-> HANDLERS_REGISTERED, load_post |-> load_post,
      depsgraph_update_post |-> depsgraph_update_post]

NoResult == [op |-> "none", status |-> "NONE", report |-> "NONE"]

SetData(d) == objects' = d.objects /\ colls' = d.colls /\ children' = d.children

SetHandlers(h) ==
    /\ HANDLERS_REGISTERED' = h.flag
    /\ load_post' = h.load_post
    /\ depsgraph_update_post' = h.depsgraph_update_post

KeepData == UNCHANGED <<objects, colls, children>>
KeepHandlers == UNCHANGED <<HANDLERS_REGISTERED, load_post, depsgraph_update_post>>

\* organize_scene_objects(scene) followed by rebuild_tracked_ids(scene), as in
\* lines 244-245, 286-287, 299-300 and 338-339.
OrganizeAndRebuild(d, scene) ==
    \E d2 \in organize_scene_objects(d, scene) :
        /\ SetData(d2)
        /\ TRACKED_OBJECT_IDS' = rebuild_tracked_ids(d2, scene)
        /\ existedAtOrg' = DOMAIN d2.objects

\* A new session of the host with the module imported: two empty scenes, the
\* property not yet defined (a scene without a stored value reads the default,
\* True).
Init ==
    /\ objects = <<>>
    /\ colls = {}
    /\ children = [s \in Scenes |-> {}]
    /\ cur = "A"
    /\ toggle = [s \in Scenes |-> TRUE]
    /\ propDefined = FALSE
    /\ HANDLERS_REGISTERED = FALSE
    /\ load_post = <<>>
    /\ depsgraph_update_post = <<>>
    /\ TRACKED_OBJECT_IDS = {}
    /\ timers = 0
    /\ result = NoResult
    /\ pendingNew = {}
    /\ existedAtOrg = {}

\* ---------------------------------------------------------- host inputs
\* The name a new object comes with: the host's default for its type.  (The
\* files below bring other names.)
NewNames(t) == {TypeName(t)}

\* Files the host can load.  A file brings its own objects, collections and
\* stored toggle values; the module's globals and the hook lists survive.
FileOn ==
    [objects |-> (1 :> [type |-> "CAMERA", name |-> CameraStr, links |-> {"A"}]) @@
                 (2 :> [type |-> "LIGHT", name |-> LightStr, links |-> {"A"}]),
     colls |-> {},
     children |-> [s \in Scenes |-> {}],
     toggle |-> [s \in Scenes |-> TRUE]]

FileOff ==
    [objects |-> (1 :> [type |-> "CAMERA", name |-> LowerB, links |-> {"A"}]) @@
                 (2 :> [type |-> "MESH", name |-> CubeStr, links |-> {"A"}]),
     colls |-> {},
     children |-> [s \in Scenes |-> {}],
     toggle |-> [s \in Scenes |-> s # "A"]]

Files == {FileOn, FileOff}

\* ---------------------------------------------------------------- actions

\* register(): defines the property, registers the classes, the handlers and
\* the delayed_init timer.
Register ==
    /\ ~propDefined
    /\ timers < MaxTimers
    /\ propDefined' = TRUE
    /\ SetHandlers(ensure_handlers_registered(H))
    /\ timers' = timers + 1
    /\ result' = NoResult
    /\ pendingNew' = {}
    /\ KeepData
    /\ UNCHANGED <<cur, toggle, TRACKED_OBJECT_IDS, existedAtOrg>>

\* unregister(): removes the handlers, the classes and the property.
Unregister ==
    /\ propDefined
    /\ SetHandlers(ensure_handlers_unregistered(H))
    /\ propDefined' = FALSE
    /\ result' = NoResult
    /\ pendingNew' = {}
    /\ KeepData
    /\ UNCHANGED <<cur, toggle, TRACKED_OBJECT_IDS, timers, existedAtOrg>>

\* delayed_init, fired once by the host's timer.
DelayedInit ==
    /\ timers > 0
    /\ timers' = timers - 1
    /\ result' = NoResult
    /\ pendingNew' = {}
    /\ KeepHandlers
    /\ UNCHANGED <<cur, toggle, propDefined>>
    /\ IF is_auto_enabled(propDefined, toggle, cur)
       THEN OrganizeAndRebuild(D, cur)
       ELSE KeepData /\ UNCHANGED <<TRACKED_OBJECT_IDS, existedAtOrg>>

\* The panel's checkbox sets collector_enable_auto of context.scene; the host
\* then calls update_collector_auto(self, context) with self = context.scene.
SetToggle(v) ==
    /\ propDefined
    /\ toggle' = [toggle EXCEPT ![cur] = v]
    /\ result' = NoResult
    /\ pendingNew' = {}
    /\ UNCHANGED <<cur, propDefined, timers>>
    /\ IF v
       THEN /\ SetHandlers(ensure_handlers_registered(H))
            /\ OrganizeAndRebuild(D, cur)
       ELSE /\ SetHandlers(ensure_handlers_unregistered(H))
            /\ KeepData
            /\ UNCHANGED <<TRACKED_OBJECT_IDS, existedAtOrg>>

\* OBJECT_OT_collector_organize.execute
Organize ==
    /\ propDefined
    /\ result' = [op |-> "organize", status |-> "FINISHED", report |-> "INFO"]
    /\ pendingNew' = {}
    /\ KeepHandlers
    /\ UNCHANGED <<cur, toggle, propDefined, timers>>
    /\ OrganizeAndRebuild(D, cur)

\* OBJECT_OT_collector_export_report.execute
ExportReport(writeFails) ==
    /\ propDefined
    /\ result' = export_report(writeFails)
    /\ pendingNew' = {}
    /\ KeepData
    /\ KeepHandlers
    /\ UNCHANGED <<cur, toggle, propDefined, TRACKED_OBJECT_IDS, timers, existedAtOrg>>

\* The host runs the depsgraph_update_post hooks; handle_depsgraph_update runs
\* if it is in the list.
DepsgraphUpdate ==
    /\ result' = NoResult
    /\ pendingNew' = {}
    /\ KeepHandlers
    /\ UNCHANGED <<cur, toggle, propDefined, timers>>
    /\ IF /\ InList("handle_depsgraph_update", depsgraph_update_post)
          /\ is_auto_enabled(propDefined, toggle, cur)
       THEN \E d2 \in organize_new_objects(D, cur, TRACKED_OBJECT_IDS) :
                /\ SetData(d2)
                /\ TRACKED_OBJECT_IDS' = rebuild_tracked_ids(d2, cur)
                /\ existedAtOrg' = DOMAIN d2.objects
       ELSE KeepData /\ UNCHANGED <<TRACKED_OBJECT_IDS, existedAtOrg>>

\* The host loads a file and runs the load_post hooks; handle_load_post runs
\* if it is in the list.
LoadFile(f) ==
    LET d == [objects |-> f.objects, colls |-> f.colls, children |-> f.children]
        h == IF /\ InList("handle_load_post", load_post)
                /\ is_auto_enabled(propDefined, f.toggle, "A")
             THEN ensure_handlers_registered(H)
             ELSE H
    IN  /\ cur' = "A"
        /\ toggle' = f.toggle
        /\ result' = NoResult
        /\ pendingNew' = {}
        /\ UNCHANGED <<propDefined, timers>>
        /\ SetHandlers(h)
        /\ IF /\ InList("handle_load_post", load_post)
              /\ is_auto_enabled(propDefined, f.toggle, "A")
           THEN OrganizeAndRebuild(d, "A")
           ELSE /\ SetData(d)
                /\ existedAtOrg' = {}
                /\ UNCHANGED TRACKED_OBJECT_IDS

\* The user adds an object to the current scene (linked to its master
\* collection); the host gives it a unique name.  id(obj) of a deleted object
\* may be given to a later one: the new object takes the lowest free identity.
AddObject(t, nm) ==
    /\ Cardinality(DOMAIN objects) < MaxObj
    /\ \E id \in {i \in ObjIds \ DOMAIN objects :
                     \A j \in ObjIds \ DOMAIN objects : i <= j} :
        /\ objects' =
              [o \in (DOMAIN objects) \cup {id} |->
                  IF o = id
                  THEN [type |-> t,
                        name |-> UniqueName(nm, {objects[p].name : p \in DOMAIN objects}),
                        links |-> {cur}]
                  ELSE objects[o]]
        /\ pendingNew' = IF is_auto_enabled(propDefined, toggle, cur)
                         THEN pendingNew \cup {id}
                         ELSE {}
    /\ result' = NoResult
    /\ KeepHandlers
    /\ UNCHANGED <<colls, children, cur, toggle, propDefined, TRACKED_OBJECT_IDS,
                   timers, existedAtOrg>>

\* The user deletes an object.
DeleteObject(o) ==
    /\ o \in DOMAIN objects
    /\ objects' = [p \in (DOMAIN objects) \ {o} |-> objects[p]]
    /\ existedAtOrg' = existedAtOrg \ {o}
    /\ result' = NoResult
    /\ pendingNew' = {}
    /\ KeepHandlers
    /\ UNCHANGED <<colls, children, cur, toggle, propDefined, TRACKED_OBJECT_IDS, timers>>

\* The user moves an object to the master collection of a scene.
RelinkObject(o, c) ==
    /\ o \in DOMAIN objects
    /\ objects[o].links # {c}
    /\ objects' = [objects EXCEPT ![o].links = {c}]
    /\ existedAtOrg' = existedAtOrg \ {o}
    /\ result' = NoResult
    /\ pendingNew' = {}
    /\ KeepHandlers
    /\ UNCHANGED <<colls, children, cur, toggle, propDefined, TRACKED_OBJECT_IDS, timers>>

\* The user makes another scene the active one.
SwitchScene(s) ==
    /\ s # cur
    /\ cur' = s
    /\ result' = NoResult
    /\ pendingNew' = {}
    /\ KeepData
    /\ KeepHandlers
    /\ UNCHANGED <<toggle, propDefined, TRACKED_OBJECT_IDS, timers, existedAtOrg>>

Next ==
    \/ Register
    \/ Unregister
    \/ DelayedInit
    \/ \E v \in BOOLEAN : SetToggle(v)
    \/ Organize
    \/ \E w \in BOOLEAN : ExportReport(w)
    \/ DepsgraphUpdate
    \/ \E f \in Files : LoadFile(f)
    \/ \E t \in TARGET_OBJECT_TYPES : \E nm \in NewNames(t) : AddObject(t, nm)
    \/ \E o \in DOMAIN objects : DeleteObject(o)
    \/ \E o \in DOMAIN objects : \E c \in Scenes : RelinkObject(o, c)
    \/ \E s \in Scenes : SwitchScene(s)

Spec == Init /\ [][Next]_vars

\* --------------------------------------------- move under failing host calls
\* move_object_exclusively_to_collection applied to a camera and a light with
\* every set of collections they may be linked to, under every combination of
\* failing objects.link / objects.unlink calls.
InitMove ==
    /\ \E lc, ll \in SUBSET AllColls :
          objects = (1 :> [type |-> "CAMERA", name |-> SeqName(CameraStr, 1), links |-> lc]) @@
                    (2 :> [type |-> "LIGHT", name |-> SeqName(LightStr, 1), links |-> ll])
    /\ colls = TargetColls
    /\ children = [s \in Scenes |-> TargetColls]
    /\ cur = "A"
    /\ toggle = [s \in Scenes |-> TRUE]
    /\ propDefined = TRUE
    /\ HANDLERS_REGISTERED = TRUE
    /\ load_post = <<"handle_load_post">>
    /\ depsgraph_update_post = <<"handle_depsgraph_update">>
    /\ TRACKED_OBJECT_IDS = {}
    /\ timers = 0
    /\ result = NoResult
    /\ pendingNew = {}
    /\ existedAtOrg = {}

MoveCall(o, linkFails, unlinkFails) ==
    LET r == move_object_exclusively_to_collection(
                 objects[o].links, TargetOf(objects[o].type), linkFails, unlinkFails)
    IN  /\ objects' = [objects EXCEPT ![o].links = r.links]
        /\ result' = [op |-> "move", status |-> r.exc, report |-> "NONE"]
        /\ KeepHandlers
        /\ UNCHANGED <<colls, children, cur, toggle, propDefined, TRACKED_OBJECT_IDS,
                       timers, pendingNew, existedAtOrg>>

NextMove ==
    \E o \in DOMAIN objects : \E lf, uf \in SUBSET AllColls : MoveCall(o, lf, uf)

SpecMove == InitMove /\ [][NextMove]_vars

\* ------------------------------------------------- renaming many objects
\* The names the objects of a scene may carry before they are organized:
\* sequential names up to ten, the host's default name and a lower-case name.
PoolName(t) ==
    [i \in 1..12 |->
        IF i <= 10 THEN SeqName(TypeName(t), i)
        ELSE IF i = 11 THEN TypeName(t) ELSE LowerB]

\* The add-on registered, auto-organization switched off in the scene, and any
\* set of objects of one tracked type, each with its own name of the pool.
InitNames ==
    /\ \E t \in TARGET_OBJECT_TYPES : \E I \in SUBSET (1..12) :
          objects = [i \in I |-> [type |-> t, name |-> PoolName(t)[i], links |-> {"A"}]]
    /\ colls = {}
    /\ children = [s \in Scenes |-> {}]
    /\ cur = "A"
    /\ toggle = [s \in Scenes |-> s # "A"]
    /\ propDefined = TRUE
    /\ HANDLERS_REGISTERED = FALSE
    /\ load_post = <<>>
    /\ depsgraph_update_post = <<>>
    /\ TRACKED_OBJECT_IDS = {}
    /\ timers = 0
    /\ result = NoResult
    /\ pendingNew = {}
    /\ existedAtOrg = {}

NextNames == Organize

SpecNames == InitNames /\ [][NextNames]_vars

\* ------------------------------------------------------------- properties
InTarget(objs, o) == objs[o].links = {TargetOf(objs[o].type)}

Sequential(objs, o) == PatternMatch(TypeName(objs[o].type), objs[o].name)

\* Every camera and light of the current scene is linked to its target
\* collection and to nothing else.
AllOrganized ==
    \A o \in SceneObjects(D, cur) :
        objects[o].type \in TARGET_OBJECT_TYPES => InTarget(objects, o)

LoadHandled == (\E f \in Files : LoadFile(f)) /\ InList("handle_load_post", load_post)

DepsgraphHandled ==
    DepsgraphUpdate /\ InList("handle_depsgraph_update", depsgraph_update_post)

\* The cameras and lights a handled graph-update treats as new: those of the
\* scene that the tracked cache does not hold.
FoundNew ==
    {o \in DOMAIN objects :
        /\ o \in SceneObjects(D, cur)'
        /\ objects[o].type \in TARGET_OBJECT_TYPES
        /\ o \notin TRACKED_OBJECT_IDS}

C2_SequentialNamesAfterOrganize ==
    [][Organize =>
         \A t \in TARGET_OBJECT_TYPES :
            \E order \in SortedOrders(objects, t) :
               \A i \in 1..Len(order) :
                  objects'[order[i]].name = SeqName(TypeName(t), i)]_vars

\* The indices used by the objects of o's type other than o.
OtherNumbers(objs, o) ==
    LET tn == TypeName(objs[o].type)
    IN  {StrToInt(PatternGroup(tn, objs[p].name)) :
            p \in {q \in (DOMAIN objs) \ {o} :
                      objs[q].type = objs[o].type /\ PatternMatch(tn, objs[q].name)}}

\* C3: a single new camera or light found by a graph-update is named
\* '{TypeName} k', k the smallest positive integer that no other object of its
\* type uses as index; several new objects get pairwise distinct indices.
C3_LowestUnusedIndex ==
    [][DepsgraphHandled /\ propDefined /\ toggle[cur] =>
         /\ \A o \in FoundNew :
               Cardinality(FoundNew) = 1 =>
                  objects'[o].name =
                     SeqName(TypeName(objects[o].type), LowestUnused(OtherNumbers(objects, o)))
         /\ \A o, p \in FoundNew :
               o # p /\ objects[o].type = objects[p].type =>
                  /\ Sequential(objects', o) /\ Sequential(objects', p)
                  /\ objects'[o].name # objects'[p].name]_vars

\* C4: an object added to the current scene while its toggle is on is, after
\* the next graph-update notification of the host, in its target collection
\* and carries a sequential name.
C4_AddedObjectOrganizedByNextUpdate ==
    [][~(\A o \in pendingNew :
            /\ o \in DOMAIN objects'
            /\ InTarget(objects', o) /\ Sequential(objects', o))
       => ~DepsgraphUpdate]_vars

\* C5: while the stored toggle of the current scene is off, a load or
\* graph-update notification (and the delayed_init timer) changes no object,
\* creates and links no collection and leaves the tracked cache as it is; the
\* manual Organize action does organize the scene in that state.
C5_NotificationsInertWhileOff ==
    [][/\ \A f \in Files :
             LoadFile(f) /\ ~f.toggle["A"] =>
                /\ objects' = f.objects /\ colls' = f.colls /\ children' = f.children
                /\ TRACKED_OBJECT_IDS' = TRACKED_OBJECT_IDS
       /\ ~toggle[cur] /\ ~(UNCHANGED <<objects, colls, children, TRACKED_OBJECT_IDS>>)
             => ~(DepsgraphUpdate \/ DelayedInit)
       /\ ~toggle[cur] /\ Organize =>
             /\ AllOrganized'
             /\ TRACKED_OBJECT_IDS' = rebuild_tracked_ids(D, cur)'
      ]_vars

\* Right after a load notification handled with the toggle off: the handler
\* is in the hook list and the file's camera is as the file had it.
C5_Witness ==
    /\ propDefined /\ ~toggle[cur]
    /\ InList("handle_load_post", load_post)
    /\ objects = FileOff.objects /\ colls = {}
    /\ ~AllOrganized

\* C6: export ends CANCELLED with an ERROR report exactly when writing the
\* file fails, FINISHED with an INFO report otherwise, and changes nothing of
\* the scene or of the add-on's state.
C6_ExportStatus ==
    [][\A w \in BOOLEAN :
          ExportReport(w) =>
             /\ result'.status = (IF w THEN "CANCELLED" ELSE "FINISHED")
             /\ result'.report = (IF w THEN "ERROR" ELSE "INFO")
             /\ UNCHANGED <<objects, colls, children, toggle, propDefined,
                            HANDLERS_REGISTERED, load_post, depsgraph_update_post,
                            TRACKED_OBJECT_IDS>>]_vars

\* An export that failed to write, in a session where neither target
\* collection exists and the scene holds an object.
C6_Witness ==
    /\ result = [op |-> "export", status |-> "CANCELLED", report |-> "ERROR"]
    /\ colls = {}
    /\ DOMAIN objects # {}

\* C7 as stated: the move never raises and leaves the object linked to the
\* target collection and to no other, whichever host calls fail.
C7_MoveAlwaysExclusive ==
    [][\A o \in DOMAIN objects : \A lf, uf \in SUBSET AllColls :
          MoveCall(o, lf, uf) =>
             /\ result'.status = "none"
             /\ InTarget(objects', o)]_vars

\* C7 amended: the move never raises; on return the object is in the target
\* collection unless it was not there and the link call failed, and in no
\* other collection except those whose unlink call failed.
C7_MoveBestEffort ==
    [][\A o \in DOMAIN objects : \A lf, uf \in SUBSET AllColls :
          MoveCall(o, lf, uf) =>
             LET tgt == TargetOf(objects[o].type)
                 before == objects[o].links
                 after == objects'[o].links
             IN  /\ result'.status = "none"
                 /\ (tgt \in after) = (tgt \in before \/ tgt \notin lf)
                 /\ after \ {tgt} = (before \ {tgt}) \cap uf
                 /\ (lf = {} /\ uf = {} => after = {tgt})]_vars

\* A move has returned and neither object is exclusively in its target
\* collection: a host call of that move failed and was swallowed.
C7_Witness ==
    /\ result = [op |-> "move", status |-> "none", report |-> "NONE"]
    /\ \A o \in DOMAIN objects : ~InTarget(objects, o)

\* C8: a second organize_scene_objects with no host change in between leaves
\* every name and every collection membership as the first run left them.
C8_OrganizeIdempotent ==
    [][Organize /\ result.op = "organize" => objects' = objects]_vars

\* C9: a graph-update renames and relinks only objects created since the
\* previous organization; an object that existed then keeps its name and its
\* collections.
C9_UpdateTouchesOnlyNewObjects ==
    [][~(\A o \in existedAtOrg : o \in DOMAIN objects' /\ objects'[o] = objects[o])
       => ~DepsgraphUpdate]_vars

\* C10: each callback is at most once in its hook list, and
\* HANDLERS_REGISTERED is true exactly when both are in their lists.
Count(f, list) == Cardinality({i \in 1..Len(list) : list[i] = f})

C10_HandlersConsistent ==
    /\ Count("handle_load_post", load_post) <= 1
    /\ Count("handle_depsgraph_update", depsgraph_update_post) <= 1
    /\ HANDLERS_REGISTERED =
          (/\ InList("handle_load_post", load_post)
           /\ InList("handle_depsgraph_update", depsgraph_update_post))

\* The handlers are registered while the toggle of one scene is off: the flag
\* is set and each list holds its callback exactly once.
C10_Witness ==
    /\ HANDLERS_REGISTERED
    /\ \E s \in Scenes : ~toggle[s]
    /\ load_post = <<"handle_load_post">>
    /\ depsgraph_update_post = <<"handle_depsgraph_update">>
====
